---- MODULE Spec2Model ----
(***************************************************************************)
(* A model of src/better-commandline/usb.c: the framing of instrument      *)
(* commands over USB bulk transfers (raw_write, usb_read), the sequence    *)
(* counter messageIndex, the transfer executor send_transfer with its      *)
(* completion callback, and the session operations usb_connect, usb_write, *)
(* usb_read and usb_close; and of do_connect of src/better-commandline/    *)
(* main.c, the command-line flow that drives one session.                  *)
(*                                                                         *)
(* The program is single threaded.  libusb runs completion callbacks only  *)
(* inside libusb_handle_events_completed, so the only interleaving is the  *)
(* host's choice of which completed transfers it reports at each such      *)
(* call, and of how each libusb call ends.  Transfers of one endpoint      *)
(* complete in submission order, transfers of different endpoints in any   *)
(* order: pending lists the transfers in flight in submission order and    *)
(* the host completes the oldest one of some endpoint.                     *)
(*                                                                         *)
(* Every action takes the environment e it runs in: the commands and       *)
(* buffer sizes the caller passes, the devices on the bus, and the ways    *)
(* the host can end a submission and a transfer.                           *)
(***************************************************************************)
EXTENDS Integers, Sequences, FiniteSets, TLC

VARIABLES
    messageIndex,      \* usb.c:15  unsigned char, the next sequence byte
    callbackReturned,  \* usb.c:14  int flag set by callback
    callbackError,     \* usb.c:16  int, result of the most recent callback
    usb,               \* usb.h:7   struct usb_data of the caller (handle: "unset" | "handle")
    lib,               \* what libusb holds for usb_connect: list, handle, config, interface
    session,           \* "unconnected" | "failed" | "connected" | "closed"
    pc,                \* position of the caller inside usb_write / usb_read
    call,              \* the call in progress, or the last one: "none" | "write" | "read"
    ret,               \* <<r>> once the last call returned r, <<>> while a call runs
    message,           \* the frame buffer of the call in progress (<<>> outside a call)
    args,              \* endpoint and size passed to send_transfer by the call in progress
    xfer,              \* the libusb_transfer allocated by the call: "none" | "allocated" | "freed"
    pending,           \* transfers submitted and not yet reported by a callback, oldest first
    submitted,         \* endpoints of the transfers this call submitted successfully
    completions,       \* the transfer of this call as callback read it, at each of its completions
    command,           \* the command passed to usb_write, while the call runs
    lastSeq,           \* sequence byte of the frame the last call put on OUT (0: none, or the call failed)
    run,               \* frames sent in a run of usb_write calls only since connect, or NoRun
    bus,               \* the ids usb_connect was asked for and the devices libusb listed, <<>> before
    flow               \* main.c: the arg_info of the do_connect that drives the session, <<>> if none

vars == <<messageIndex, callbackReturned, callbackError, usb, lib, session, pc, call,
          ret, message, args, xfer, pending, submitted, completions, command, lastSeq, run,
          bus, flow>>

----------------------------------------------------------------------------
(* Program constants *)

writeTo == 1
readFrom == 2
HeaderSize == 12
LIBUSB_ENDPOINT_TRANSFER_TYPE_BULK == 2
LIBUSB_ENDPOINT_OUT == 0
LIBUSB_ERROR_NOT_SUPPORTED == 0 - 12
NewLine == 10

(* Bounds of the model *)

MaxLen == 1            \* Spec: a command of every length 0..MaxLen
FrameMaxLen == 5       \* FrameSpec: a command of every length 0..FrameMaxLen
LongLen == 300         \* FrameSpec: one long command, whose length field needs two bytes
MaxWrites == 300       \* length of the write-only runs that are followed
MaxInFlight == 2       \* a call starts only with fewer transfers than this in flight

NoRun == 0 - 1

----------------------------------------------------------------------------
(* C integer conversions *)

\* conversion to unsigned char
UChar(x) == x % 256

\* conversion to (signed) char, as for the parameter `char endpoint` of raw_write
SChar(x) == IF UChar(x) > 127 THEN UChar(x) - 256 ELSE UChar(x)

\* (a slip: -x written for ~x)
NegateInt(x) == 0 - x

\* ~x on an int (the operand is promoted): two's complement
BitNotInt(x) == 0 - x - 1

\* (a slip: the shift left out, every byte is the low byte)
ByteOfNoShift(x, k) == x % 256

\* byte k of an int, (x >> 8k) & 0xFF; \div rounds down as the arithmetic shift does
ByteOf(x, k) == (x \div (256 ^ k)) % 256

\* (a slip: the test for 0 left out)
NextIndexNoSkip(i) == UChar(i + 1)

\* messageIndex += 1; if (messageIndex == 0) messageIndex += 1;
NextIndex(i) == IF UChar(i + 1) = 0 THEN UChar(UChar(i + 1) + 1) ELSE UChar(i + 1)

\* (a slip: the counter left as the zero it has at program start)
StartIndexZero == 0

\* messageIndex = 1 (usb.c:232)
StartIndex == 1

----------------------------------------------------------------------------
(* Frames.  A buffer is a sequence of bytes; offset o of the C array is      *)
(* element o + 1.                                                           *)

Store(m, off, v) == [m EXCEPT ![off + 1] = v]

Zeros(n) == [i \in 1..n |-> 0]

\* (a slip: the outer % 4 left out, an aligned size grows by 4)
PadTo4Always(size) == size + (4 - (size % 4))

\* size = size + ((4 - (size % 4)) % 4)
PadTo4(size) == size + ((4 - (size % 4)) % 4)

\* strcpy(message + off, data): the bytes of data, then its terminating NUL
StrCpy(m, off, data) ==
    [i \in DOMAIN m |->
        IF i > off /\ i <= off + Len(data) THEN data[i - off]
        ELSE IF i = off + Len(data) + 1 THEN 0
        ELSE m[i]]

\* the length raw_write puts in the header
RawLength(data, messageType) ==
    IF messageType = writeTo THEN Len(data) + 1 ELSE Len(data)

EofByte == 1

\* the buffer raw_write builds (usb.c:99-122)
RawMessage(data, messageType, index) ==
    LET length == RawLength(data, messageType)
        size   == PadTo4(HeaderSize + length)
        m0 == Zeros(size)
        m1 == Store(m0, 0, messageType)
        m2 == Store(m1, 1, index)
        m3 == Store(m2, 2, UChar(BitNotInt(index)))
        m4 == Store(m3, 4, ByteOf(length, 0))
        m5 == Store(m4, 5, ByteOf(length, 1))
        m6 == Store(m5, 6, ByteOf(length, 2))
        m7 == Store(m6, 7, ByteOf(length, 3))
        m8 == Store(m7, 8, EofByte)
    IN  IF messageType = writeTo
        THEN Store(StrCpy(m8, HeaderSize, data), 11 + length, NewLine)
        ELSE m8

\* the 12 byte request usb_read builds (usb.c:252-265); size is unsigned int,
\* and bytes 0..3 of (size - 12) mod 2^32 are those of the two's complement of size - 12
ReadRequest(size, index) ==
    << readFrom, index, UChar(BitNotInt(index)), 0,
       ByteOf(size - 12, 0), ByteOf(size - 12, 1), ByteOf(size - 12, 2), ByteOf(size - 12, 3),
       0, 0, 0, 0 >>

----------------------------------------------------------------------------
(* callback (usb.c:24-34).  info is the libusb_transfer as the callback     *)
(* reads it: status and actual_length set by libusb, length and endpoint    *)
(* as last filled in.  The result is the new callbackError.                 *)

callback(info) ==
    IF info.status = 0 /\ ((info.actual_length = info.length) \/ (info.endpoint > 127))
    THEN 0
    ELSE 0 - 1

----------------------------------------------------------------------------
(* usb_connect (usb.c:139-241).  A device is what libusb reports for it:    *)
(* desc (the code of libusb_get_device_descriptor), idVendor, idProduct,    *)
(* open, configure, config_desc, claim, alt (the codes of the calls made    *)
(* on it) and endpoints (bmAttributes, bEndpointAddress) of interface 0.    *)

NoLib == [list |-> "none", listFrees |-> 0, uninitFree |-> FALSE,
          handle |-> "none", openCalls |-> 0, opens |-> 0, closes |-> 0, opened |-> 0,
          config |-> "none", claimed |-> FALSE, released |-> FALSE]

\* libusb_free_device_list(devices, 1)
FreeList(l) ==
    IF l.list = "held"
    THEN [l EXCEPT !.list = "freed", !.listFrees = @ + 1]
    ELSE [l EXCEPT !.uninitFree = TRUE, !.listFrees = @ + 1]

\* (a slip: the handle left open)
CloseHandleForgotten(l) == l

\* libusb_close(usb->handle); the code never calls libusb_release_interface,
\* so claimed and released are left as they are
CloseHandle(l) == [l EXCEPT !.handle = "closed", !.closes = @ + 1]

\* libusb_free_config_descriptor(config)
FreeConfig(l) == [l EXCEPT !.config = "freed"]

\* (a slip: the test of the transfer type left out)
RECURSIVE WalkEndpointsAnyType(_, _, _)
WalkEndpointsAnyType(endpoints, j, acc) ==
    IF j > Len(endpoints) THEN acc
    ELSE LET e == endpoints[j] IN
         IF (e.bEndpointAddress \div 128) = LIBUSB_ENDPOINT_OUT
         THEN WalkEndpointsAnyType(endpoints, j + 1,
                                   [acc EXCEPT !.out = e.bEndpointAddress, !.has_out = 1])
         ELSE WalkEndpointsAnyType(endpoints, j + 1,
                                   [acc EXCEPT !.in = e.bEndpointAddress, !.has_in = 1])

\* usb.c:207-217: the walk over the endpoints; acc is <<out, in, has_out, has_in>>
RECURSIVE WalkEndpoints(_, _, _)
WalkEndpoints(endpoints, j, acc) ==
    IF j > Len(endpoints) THEN acc
    ELSE LET e == endpoints[j] IN
         IF (e.bmAttributes % 4) = LIBUSB_ENDPOINT_TRANSFER_TYPE_BULK
         THEN IF (e.bEndpointAddress \div 128) = LIBUSB_ENDPOINT_OUT
              THEN WalkEndpoints(endpoints, j + 1,
                                 [acc EXCEPT !.out = e.bEndpointAddress, !.has_out = 1])
              ELSE WalkEndpoints(endpoints, j + 1,
                                 [acc EXCEPT !.in = e.bEndpointAddress, !.has_in = 1])
         ELSE WalkEndpoints(endpoints, j + 1, acc)

\* usb.c:155-235: the matched device devices[i]
ConnectDevice(d, i, u, l0) ==
    LET fail(uu, ll) == [ret |-> 0 - 1, usb |-> uu, lib |-> FreeList(ll), index |-> messageIndex]
        lo == [l0 EXCEPT !.openCalls = @ + 1]
    IN
    IF d.open # 0 THEN fail(u, lo)
    ELSE
    LET u1 == [u EXCEPT !.handle = "handle"]
        l1 == [lo EXCEPT !.handle = "open", !.opens = @ + 1, !.opened = i]
    IN
    IF d.configure # 0 /\ d.configure # LIBUSB_ERROR_NOT_SUPPORTED
    THEN fail(u1, CloseHandle(l1))
    ELSE IF d.config_desc # 0
    THEN fail(u1, CloseHandle(l1))
    ELSE
    LET l2 == [l1 EXCEPT !.config = "held"] IN
    IF d.claim # 0
    THEN fail(u1, CloseHandle(FreeConfig(l2)))
    ELSE
    LET l3 == [l2 EXCEPT !.claimed = TRUE] IN
    IF d.alt # 0
    THEN fail(u1, CloseHandle(FreeConfig(l3)))
    ELSE
    LET w  == WalkEndpoints(d.endpoints, 1,
                            [out |-> u1.out_endpoint, in |-> u1.in_endpoint,
                             has_out |-> 0, has_in |-> 0])
        u2 == [u1 EXCEPT !.out_endpoint = w.out, !.in_endpoint = w.in]
    IN
    IF w.has_out = 0
    THEN fail(u2, CloseHandle(FreeConfig(l3)))
    ELSE IF w.has_in = 0
    THEN fail(u2, CloseHandle(FreeConfig(l3)))
    ELSE [ret |-> 0, usb |-> u2, lib |-> FreeList(FreeConfig(l3)), index |-> StartIndex]

\* (a slip: || for &&, a device matches on either id)
RECURSIVE ScanEitherId(_, _, _, _, _, _)
ScanEitherId(vendor_id, product_id, devices, i, u, l) ==
    IF i > Len(devices)
    THEN [ret |-> 0 - 1, usb |-> u, lib |-> FreeList(l), index |-> messageIndex]
    ELSE IF devices[i].desc # 0
    THEN ScanEitherId(vendor_id, product_id, devices, i + 1, u, l)
    ELSE IF devices[i].idVendor = vendor_id \/ devices[i].idProduct = product_id
    THEN ConnectDevice(devices[i], i, u, l)
    ELSE ScanEitherId(vendor_id, product_id, devices, i + 1, u, l)

\* (a slip: a descriptor that cannot be read ends the scan)
RECURSIVE ScanStopsAtUnreadable(_, _, _, _, _, _)
ScanStopsAtUnreadable(vendor_id, product_id, devices, i, u, l) ==
    IF i > Len(devices)
    THEN [ret |-> 0 - 1, usb |-> u, lib |-> FreeList(l), index |-> messageIndex]
    ELSE IF devices[i].desc # 0
    THEN [ret |-> 0 - 1, usb |-> u, lib |-> FreeList(l), index |-> messageIndex]
    ELSE IF devices[i].idVendor = vendor_id /\ devices[i].idProduct = product_id
    THEN ConnectDevice(devices[i], i, u, l)
    ELSE ScanStopsAtUnreadable(vendor_id, product_id, devices, i + 1, u, l)

\* (a slip: after a failed open the scan goes on to the next device)
RECURSIVE ScanGoesOnAfterOpen(_, _, _, _, _, _)
ScanGoesOnAfterOpen(vendor_id, product_id, devices, i, u, l) ==
    IF i > Len(devices)
    THEN [ret |-> 0 - 1, usb |-> u, lib |-> FreeList(l), index |-> messageIndex]
    ELSE IF devices[i].desc # 0
    THEN ScanGoesOnAfterOpen(vendor_id, product_id, devices, i + 1, u, l)
    ELSE IF devices[i].idVendor = vendor_id /\ devices[i].idProduct = product_id
    THEN IF devices[i].open # 0
         THEN ScanGoesOnAfterOpen(vendor_id, product_id, devices, i + 1, u,
                                  [l EXCEPT !.openCalls = @ + 1])
         ELSE ConnectDevice(devices[i], i, u, l)
    ELSE ScanGoesOnAfterOpen(vendor_id, product_id, devices, i + 1, u, l)

\* usb.c:148-240: the scan from devices[i] on (i counts from 1 here)
RECURSIVE Scan(_, _, _, _, _, _)
Scan(vendor_id, product_id, devices, i, u, l) ==
    IF i > Len(devices)
    THEN [ret |-> 0 - 1, usb |-> u, lib |-> FreeList(l), index |-> messageIndex]
    ELSE IF devices[i].desc # 0
    THEN Scan(vendor_id, product_id, devices, i + 1, u, l)
    ELSE IF devices[i].idVendor = vendor_id /\ devices[i].idProduct = product_id
    THEN ConnectDevice(devices[i], i, u, l)
    ELSE Scan(vendor_id, product_id, devices, i + 1, u, l)

\* usb.c:139-241.  count is what libusb_get_device_list returned; when it is
\* negative no list was produced, the loop does not run and the list that is
\* freed is the uninitialised pointer.
ConnectResult(vendor_id, product_id, count, devices) ==
    IF count < 0
    THEN [ret |-> 0 - 1, usb |-> usb, lib |-> FreeList(lib), index |-> messageIndex]
    ELSE Scan(vendor_id, product_id, devices, 1, usb, [lib EXCEPT !.list = "held"])

----------------------------------------------------------------------------
(* Inputs *)

\* the i-th character of the commands: 'A' and '?' in turn, never NUL
Letter(i) == IF i % 2 = 1 THEN 65 ELSE 63

Text(n) == [i \in 1..n |-> Letter(i)]

\* how the host can complete a transfer: its status, and how much it moved
Outcomes == [status : {0, 1}, moved : {"none", "short", "full"}]

ActualLength(moved, sublen) ==
    CASE moved = "none"  -> 0
      [] moved = "short" -> IF sublen > 0 THEN sublen - 1 ELSE 0
      [] moved = "full"  -> sublen

\* devices of the bus for usb_connect
Endpoint(attr, addr) == [bmAttributes |-> attr, bEndpointAddress |-> addr]

Device(desc, vendor, product, open, endpoints) ==
    [desc |-> desc, idVendor |-> vendor, idProduct |-> product, open |-> open,
     configure |-> 0, config_desc |-> 0, claim |-> 0, alt |-> 0, endpoints |-> endpoints]

Instrument == Device(0, 1, 1, 0, <<Endpoint(3, 131), Endpoint(2, 1), Endpoint(2, 129)>>)

Bus(count, devices) ==
    [vendor_id |-> 1, product_id |-> 1, count |-> count, devices |-> devices]

Buses ==
    { Bus(1, <<Instrument>>),
      Bus(1, <<Device(0, 1, 2, 0, <<>>)>>),
      Bus(1, <<[Instrument EXCEPT !.open = 0 - 3]>>),
      Bus(1, <<[Instrument EXCEPT !.endpoints = <<Endpoint(2, 129)>>]>>),
      Bus(0 - 1, <<>>) }

\* ConnectSpec: the buses usb_connect is tried on.  The ids asked for are (1, 1).
\* a second instrument, whose interrupt and isochronous endpoints come last
Instrument2 ==
    Device(0, 1, 1, 0, <<Endpoint(2, 2), Endpoint(2, 130), Endpoint(3, 131), Endpoint(5, 3)>>)

\* a device of the same product id and another vendor
Other == Device(0, 2, 1, 0, <<Endpoint(2, 4), Endpoint(2, 132)>>)

\* a device whose descriptor cannot be read
Unreadable == [Instrument EXCEPT !.desc = 0 - 1]

ConnectBuses ==
    { Bus(1, <<Instrument>>),
      Bus(2, <<Other, Instrument2>>),
      Bus(2, <<Unreadable, Instrument>>),
      Bus(2, <<Instrument, Instrument2>>),
      Bus(2, <<[Instrument EXCEPT !.open = 0 - 3], Instrument2>>),
      Bus(1, <<[Instrument EXCEPT !.configure = LIBUSB_ERROR_NOT_SUPPORTED]>>),
      Bus(1, <<[Instrument EXCEPT !.configure = 0 - 1]>>),
      Bus(1, <<[Instrument EXCEPT !.config_desc = 0 - 1]>>),
      Bus(1, <<[Instrument EXCEPT !.claim = 0 - 6]>>),
      Bus(1, <<[Instrument EXCEPT !.alt = 0 - 1]>>),
      Bus(1, <<[Instrument EXCEPT !.endpoints = <<Endpoint(3, 3), Endpoint(2, 129)>>]>>),
      Bus(1, <<[Instrument EXCEPT !.endpoints = <<Endpoint(2, 1), Endpoint(3, 131)>>]>>),
      Bus(1, <<Other>>),
      Bus(2, <<Unreadable, Other>>),
      Bus(0, <<>>),
      Bus(0 - 1, <<>>) }

ConnectEnv ==
    [commands |-> {Text(0)},
     sizes    |-> {8},
     buses    |-> ConnectBuses,
     codes    |-> {0},
     outcomes |-> {[status |-> 0, moved |-> "full"]}]

\* Spec: few commands and sizes, a host that can fail in every way
Env ==
    [commands |-> {Text(n) : n \in 0..MaxLen},
     sizes    |-> {8, 1024},
     buses    |-> Buses,
     codes    |-> {0, 0 - 1},
     outcomes |-> Outcomes]

\* FrameSpec: many commands and sizes, a host that accepts and completes every transfer
FrameEnv ==
    [commands |-> {Text(n) : n \in 0..FrameMaxLen} \cup {Text(LongLen)},
     sizes    |-> {0, 8, 11, 12, 13, 1024, 65536 + 12},
     buses    |-> {Bus(1, <<Instrument>>)},
     codes    |-> {0},
     outcomes |-> {[status |-> 0, moved |-> "full"]}]

----------------------------------------------------------------------------
(* The transfers in flight *)

Transfer(endpoint, size) ==
    [own |-> TRUE, freed |-> FALSE, endpoint |-> endpoint, length |-> size,
     sublen |-> size, subep |-> endpoint]

\* what is left of a transfer freed while in flight on endpoint ep: the host
\* still holds the submission, the memory of the transfer is gone
FreedTransfer(ep) ==
    [own |-> FALSE, freed |-> TRUE, endpoint |-> 0, length |-> 0, sublen |-> 0, subep |-> ep]

OwnInFlight == \E k \in 1..Len(pending) : pending[k].own

\* the transfers of earlier calls are no longer this call's
Disown(q) == [k \in 1..Len(q) |-> [q[k] EXCEPT !.own = FALSE]]

\* libusb_fill_bulk_transfer on the transfer of this call while it is in flight
Refill(q, endpoint, size) ==
    [k \in 1..Len(q) |->
        IF q[k].own THEN [q[k] EXCEPT !.endpoint = endpoint, !.length = size] ELSE q[k]]

\* libusb_free_transfer on the transfer of this call while it is in flight
FreeInFlight(q) == [k \in 1..Len(q) |-> IF q[k].own THEN FreedTransfer(q[k].subep) ELSE q[k]]

\* the transfer as callback reads it when the host completes it with outcome o
Info(r, o) == [status |-> o.status, actual_length |-> ActualLength(o.moved, r.sublen),
               length |-> r.length, endpoint |-> r.endpoint]

\* callbackError after the callback of r ran.  The callback of a transfer freed
\* while in flight reads freed memory: either result is possible.
AfterCallback(r, o) ==
    IF r.freed THEN (IF o.status = 0 THEN 0 ELSE 0 - 1) ELSE callback(Info(r, o))

----------------------------------------------------------------------------
(* The state after program start: the globals of usb.c are zero, the        *)
(* caller's struct usb_data is not yet filled in, nothing is in flight.     *)

NoArgs == [endpoint |-> 0, size |-> 0]

Init ==
    /\ messageIndex = 0
    /\ callbackReturned = 0
    /\ callbackError = 0
    /\ usb = [handle |-> "unset", out_endpoint |-> 0, in_endpoint |-> 0]
    /\ lib = NoLib
    /\ session = "unconnected"
    /\ pc = "idle"
    /\ call = "none"
    /\ ret = <<>>
    /\ message = <<>>
    /\ args = NoArgs
    /\ xfer = "none"
    /\ pending = <<>>
    /\ submitted = <<>>
    /\ completions = <<>>
    /\ command = <<>>
    /\ lastSeq = 0
    /\ run = NoRun
    /\ bus = <<>>
    /\ flow = <<>>

\* usb_connect (usb.c:139-241), called once by a caller that has no session yet
usb_connect(e) ==
    /\ pc = "idle"
    /\ session = "unconnected"
    /\ \E b \in e.buses :
         LET r == ConnectResult(b.vendor_id, b.product_id, b.count, b.devices) IN
         /\ bus' = b
         /\ usb' = r.usb
         /\ lib' = r.lib
         /\ messageIndex' = r.index
         /\ session' = IF r.ret = 0 THEN "connected" ELSE "failed"
         /\ ret' = <<r.ret>>
         /\ run' = IF r.ret = 0 THEN 0 ELSE NoRun
    /\ call' = "connect"
    /\ UNCHANGED <<callbackReturned, callbackError, pc, message, args, xfer, pending,
                   submitted, completions, command, lastSeq, flow>>

\* what every call of usb_write and usb_read starts with: the caller has a
\* session, and libusb_alloc_transfer gives the call its transfer
StartCall(name) ==
    /\ pc = "idle"
    /\ session = "connected"
    /\ Len(pending) < MaxInFlight
    /\ call' = name
    /\ ret' = <<>>
    /\ xfer' = "allocated"
    /\ completions' = <<>>
    /\ UNCHANGED <<usb, lib, session, bus, flow>>

\* usb_write (usb.c:243-246) up to the call of send_transfer in raw_write
\* (usb.c:94-132): the transfer is allocated and the frame built
usb_write(e) ==
    /\ StartCall("write")
    /\ \E text \in e.commands :
         /\ command' = text
         /\ message' = RawMessage(text, writeTo, messageIndex)
         /\ args' = [endpoint |-> UChar(SChar(usb.out_endpoint)),
                     size |-> PadTo4(HeaderSize + RawLength(text, writeTo))]
    /\ pc' = "send"
    /\ pending' = Disown(pending)
    /\ submitted' = <<>>
    /\ UNCHANGED <<messageIndex, callbackReturned, callbackError, lastSeq, run>>

\* usb_read (usb.c:248-282): the request is built, the counter advanced, and the
\* request submitted on OUT; the code of libusb_submit_transfer is not looked at.
\* The caller is then inside the one libusb_handle_events_completed of usb.c:282.
usb_read(e) ==
    /\ StartCall("read")
    /\ \E size \in e.sizes, submit_err \in e.codes :
         /\ message' = ReadRequest(size, messageIndex)
         /\ args' = [endpoint |-> usb.in_endpoint, size |-> size]
         /\ IF submit_err = 0
            THEN /\ pending' = Append(Disown(pending), Transfer(usb.out_endpoint, HeaderSize))
                 /\ submitted' = <<usb.out_endpoint>>
                 /\ lastSeq' = messageIndex
            ELSE /\ pending' = Disown(pending)
                 /\ submitted' = <<>>
                 /\ lastSeq' = 0
    /\ messageIndex' = NextIndex(messageIndex)
    /\ callbackReturned' = 0
    /\ pc' = "request"
    /\ run' = NoRun
    /\ UNCHANGED <<callbackError, command>>

\* the k-th transfer in flight is the oldest one submitted on its endpoint
Oldest(q, k) == \A j \in 1..(k - 1) : q[j].subep # q[k].subep

Remove(q, k) == [i \in 1..(Len(q) - 1) |-> IF i < k THEN q[i] ELSE q[i + 1]]

\* libusb_handle_events_completed (usb.c:67 and usb.c:282) reports the oldest
\* transfer in flight on some endpoint as completed with some outcome: callback
\* runs on it.  One call of libusb_handle_events_completed may report none, one
\* or several.
callback_runs(e) ==
    /\ pc \in {"request", "wait"}
    /\ \E o \in e.outcomes, k \in DOMAIN pending :
         /\ Oldest(pending, k)
         /\ callbackError' = AfterCallback(pending[k], o)
         /\ completions' = IF pending[k].own
                           THEN Append(completions, Info(pending[k], o))
                           ELSE completions
         /\ pending' = Remove(pending, k)
    /\ callbackReturned' = 1
    /\ UNCHANGED <<messageIndex, usb, lib, session, pc, call, ret, message, args, xfer,
                   submitted, command, lastSeq, run, bus, flow>>

\* the call returns r to the caller of usb_write / usb_read; raw_write frees
\* message (usb.c:133), the request of usb_read goes out of scope
Return(r) ==
    /\ pc' = "idle"
    /\ ret' = <<r>>
    /\ message' = <<>>
    /\ args' = NoArgs
    /\ command' = <<>>

\* the run of writes goes on with one more frame, or is no longer followed
RunAfter(ok) ==
    IF call = "write" /\ ok /\ run # NoRun /\ run < MaxWrites THEN run + 1 ELSE NoRun

\* send_transfer (usb.c:55-63), entered from raw_write (usb.c:132) or, once
\* libusb_handle_events_completed has returned, from usb_read (usb.c:283-285):
\* fill, clear the flag, submit.  A transfer that is still in flight is filled
\* in all the same, and libusb refuses to submit it again.
send_transfer(e) ==
    /\ pc \in {"send", "request"}
    /\ callbackReturned' = 0
    /\ IF OwnInFlight
       THEN /\ pending' = Refill(pending, args.endpoint, args.size)
            /\ Return(0 - 1)
            /\ run' = RunAfter(FALSE)
            /\ lastSeq' = 0
            /\ UNCHANGED <<submitted>>
       ELSE \E submit_err \in e.codes :
              IF submit_err # 0
              THEN /\ Return(0 - 1)
                   /\ run' = RunAfter(FALSE)
                   /\ lastSeq' = 0
                   /\ UNCHANGED <<pending, submitted>>
              ELSE /\ pending' = Append(pending, Transfer(args.endpoint, args.size))
                   /\ submitted' = Append(submitted, args.endpoint)
                   /\ lastSeq' = IF call = "write" THEN message[2] ELSE lastSeq
                   /\ run' = RunAfter(TRUE)
                   /\ pc' = "wait"
                   /\ UNCHANGED <<ret, message, args, command>>
    /\ UNCHANGED <<messageIndex, callbackError, usb, lib, session, call, xfer,
                   completions, bus, flow>>

\* send_transfer (usb.c:66-77): the loop is left once callbackReturned is set,
\* the transfer is freed, the counter advanced and callbackError returned
send_transfer_done ==
    /\ pc = "wait"
    /\ callbackReturned # 0
    /\ xfer' = "freed"
    /\ pending' = FreeInFlight(pending)
    /\ messageIndex' = NextIndex(messageIndex)
    /\ Return(callbackError)
    /\ UNCHANGED <<callbackReturned, callbackError, usb, lib, session, call, submitted,
                   completions, lastSeq, run, bus, flow>>

\* usb_close (usb.c:288-295)
usb_close ==
    /\ pc = "idle"
    /\ session = "connected"
    /\ lib' = CloseHandle(lib)
    /\ session' = "closed"
    /\ call' = "close"
    /\ ret' = <<0>>
    /\ xfer' = "none"
    /\ submitted' = <<>>
    /\ completions' = <<>>
    /\ lastSeq' = 0
    /\ run' = NoRun
    /\ UNCHANGED <<messageIndex, callbackReturned, callbackError, usb, pc, message, args,
                   pending, command, bus, flow>>

Program(e) ==
    \/ usb_connect(e)
    \/ usb_write(e)
    \/ usb_read(e)
    \/ callback_runs(e)
    \/ send_transfer(e)
    \/ send_transfer_done
    \/ usb_close

Next == Program(Env)

Spec == Init /\ [][Next]_vars

FrameNext == Program(FrameEnv)

FrameSpec == Init /\ [][FrameNext]_vars

\* Spec with its scheduling: a caller inside send_transfer goes on running
\* (usb.c:55-77), and libusb_handle_events_completed reports every transfer in
\* flight in the end, on its completion or on its timeout (usb.c:9, 55)
FairSpec ==
    /\ Spec
    /\ WF_vars(callback_runs(Env))
    /\ WF_vars(send_transfer(Env))
    /\ WF_vars(send_transfer_done)

ConnectNext == Program(ConnectEnv)

ConnectSpec == Init /\ [][ConnectNext]_vars

----------------------------------------------------------------------------
(* do_connect (main.c:33-80), the command-line flow.  Between two calls of   *)
(* usb.c its position is fixed by the last call made (call), the code that   *)
(* call returned (ret: connection_code, send_code, read_code) and            *)
(* args->needs_response; flow holds args and whether do_connect returned.    *)

\* the buffer of main.c:66-67
BuffSize == 1024

\* what main passes to do_connect
MainEnv ==
    [commands |-> {Text(n) : n \in 0..MaxLen},
     sizes    |-> {BuffSize},
     buses    |-> Buses,
     codes    |-> {0, 0 - 1},
     outcomes |-> Outcomes]

\* do_connect is running and is not inside a call of usb.c
Between == flow # <<>> /\ flow.at = "running" /\ pc = "idle"

\* main.c:41: nothing has been called yet
ConnectIsNext == Between /\ call = "none"

\* main.c:44-53: connection_code was 0
WriteIsNext == Between /\ call = "connect" /\ ret = <<0>>

\* (a slip: send_code not looked at)
ReadIsNextUnchecked == Between /\ call = "write" /\ flow.needs_response

\* main.c:55-67: send_code was 0 and a response is needed
ReadIsNext == Between /\ call = "write" /\ ret = <<0>> /\ flow.needs_response

\* main.c:63-79: the write succeeded and either no response is needed or
\* read_code was 0
CloseIsNext ==
    /\ Between
    /\ \/ call = "write" /\ ret = <<0>> /\ ~flow.needs_response
       \/ call = "read" /\ ret = <<0>>

\* main.c:47, 58, 72: a call failed, do_connect returns -1
FailureIsNext == Between /\ call \in {"connect", "write", "read"} /\ ret # <<0>>

\* main.c:33-40: main calls do_connect with the arg_info process_args filled in
do_connect(e) ==
    /\ flow = <<>>
    /\ pc = "idle" /\ session = "unconnected" /\ call = "none"
    /\ \E text \in e.commands, needs_response \in BOOLEAN :
         flow' = [message |-> text, needs_response |-> needs_response,
                  at |-> "running", result |-> <<>>]
    /\ UNCHANGED <<messageIndex, callbackReturned, callbackError, usb, lib, session, pc,
                   call, ret, message, args, xfer, pending, submitted, completions,
                   command, lastSeq, run, bus>>

\* main.c:41
do_connect_usb_connect(e) == ConnectIsNext /\ usb_connect(e)

\* main.c:53
do_connect_usb_write(e) == WriteIsNext /\ usb_write([e EXCEPT !.commands = {flow.message}])

\* main.c:67
do_connect_usb_read(e) == ReadIsNext /\ usb_read(e)

\* main.c:79
do_connect_usb_close == CloseIsNext /\ usb_close

\* main.c:47, 58, 72 (return -1) and main.c:80 (the end of the function, no
\* value returned)
do_connect_returns ==
    /\ \/ FailureIsNext /\ flow' = [flow EXCEPT !.at = "returned", !.result = <<0 - 1>>]
       \/ Between /\ call = "close" /\ flow' = [flow EXCEPT !.at = "returned"]
    /\ UNCHANGED <<messageIndex, callbackReturned, callbackError, usb, lib, session, pc,
                   call, ret, message, args, xfer, pending, submitted, completions,
                   command, lastSeq, run, bus>>

Main(e) ==
    \/ do_connect(e)
    \/ do_connect_usb_connect(e)
    \/ do_connect_usb_write(e)
    \/ do_connect_usb_read(e)
    \/ do_connect_usb_close
    \/ do_connect_returns
    \/ callback_runs(e)
    \/ send_transfer(e)
    \/ send_transfer_done

MainNext == Main(MainEnv)

MainSpec == Init /\ [][MainNext]_vars

----------------------------------------------------------------------------
(* The command line: parse_num and process_args (argproc.c) and main        *)
(* (main.c:109-133).  A string is the sequence of its characters, argv the  *)
(* sequence of its strings; argv[argc] is the null pointer.                 *)

\* the most switch-and-value pairs on a command line
MaxPairs == 3

\* the null pointer: no string holds a negative character
NULL == <<0 - 1>>

\* argv[0]: "a"
Prog == <<97>>

\* "-v", "-V" (argproc.c:41)
SwitchV == {<<45, 118>>, <<45, 86>>}

\* "-p", "-P" (argproc.c:49)
SwitchP == {<<45, 112>>, <<45, 80>>}

\* "-disp", "-DISP", "-Disp" (argproc.c:57)
SwitchDisp == {<<45, 100, 105, 115, 112>>, <<45, 68, 73, 83, 80>>, <<45, 68, 105, 115, 112>>}

\* "-c", "-C" (argproc.c:65)
SwitchC == {<<45, 99>>, <<45, 67>>}

\* "-q", "-Q" (argproc.c:70)
SwitchQ == {<<45, 113>>, <<45, 81>>}

\* argv[i] of C: the arguments, then the null pointer that ends them
ArgvAt(argv, i) == IF i < Len(argv) THEN argv[i + 1] ELSE NULL

\* argproc.c:13
IsDigit(c) == 48 <= c /\ c <= 57

\* argproc.c:11-24: the loop of parse_num from character k on; *value is an
\* unsigned short
RECURSIVE parse_num_from(_, _, _)
parse_num_from(str, k, value) ==
    IF k > Len(str)
    THEN [ok |-> TRUE, value |-> value, crashed |-> FALSE]
    ELSE IF IsDigit(str[k])
         THEN parse_num_from(str, k + 1, (((value * 10) % 65536) + (str[k] - 48)) % 65536)
         ELSE [ok |-> FALSE, value |-> value, crashed |-> FALSE]

\* argproc.c:7-25.  On the null pointer str[0] reads address 0: the process is
\* killed, or the read yields something and parse_num returns (outcome u).
parse_num(str, u) ==
    IF str = NULL
    THEN [ok |-> u = "true", value |-> 0, crashed |-> u = "crash"]
    ELSE parse_num_from(str, 1, 0)

\* struct arg_info (argproc.h) as main declares it; process_args sets
\* do_connect first (argproc.c:29), the other fields hold no value yet
NoInfo ==
    [vendor_id |-> 0, product_id |-> 0, display_level |-> 0,
     needs_response |-> FALSE, do_connect |-> TRUE, message |-> NULL]

\* argproc.c:32-35
NoDid == [v |-> FALSE, p |-> FALSE, m |-> FALSE, disp |-> FALSE]

\* what a call of process_args leaves: the struct, the code returned (none if
\* the process was killed) and whether argv[i+1] was read with i+1 >= argc
Parsed(info, code, overread, crashed) ==
    [info |-> info, code |-> code, overread |-> overread, crashed |-> crashed]

\* argproc.c:84-107
Validate(did, info, overread) ==
    IF did.disp /\ ~did.v /\ ~did.p /\ ~did.m
    THEN Parsed([info EXCEPT !.do_connect = FALSE], <<0>>, overread, FALSE)
    ELSE IF ~did.v \/ ~did.p \/ ~did.m
         THEN Parsed(info, <<0 - 1>>, overread, FALSE)
         ELSE Parsed(info, <<0>>, overread, FALSE)

\* argproc.c:39-81: the loop from argv[i] on
RECURSIVE Arguments(_, _, _, _, _, _)
Arguments(argv, i, did, info, overread, u) ==
    IF i >= Len(argv)
    THEN Validate(did, info, overread)
    ELSE LET switch == ArgvAt(argv, i)
             value  == ArgvAt(argv, i + 1)
             over   == overread \/ i + 1 >= Len(argv)
             num    == parse_num(value, u)
             Number(did1, info1) ==
                 IF num.crashed THEN Parsed(info, <<>>, over, TRUE)
                 ELSE IF ~num.ok THEN Parsed(info1, <<0 - 1>>, over, FALSE)
                 ELSE Arguments(argv, i + 2, did1, info1, over, u)
         IN  CASE switch \in SwitchV ->
                    Number([did EXCEPT !.v = TRUE], [info EXCEPT !.vendor_id = num.value])
               [] switch \in SwitchP ->
                    Number([did EXCEPT !.p = TRUE], [info EXCEPT !.product_id = num.value])
               [] switch \in SwitchDisp ->
                    Number([did EXCEPT !.disp = TRUE], [info EXCEPT !.display_level = num.value])
               [] switch \in SwitchC ->
                    Arguments(argv, i + 2, [did EXCEPT !.m = TRUE],
                              [info EXCEPT !.needs_response = FALSE, !.message = value], over, u)
               [] switch \in SwitchQ ->
                    Arguments(argv, i + 2, [did EXCEPT !.m = TRUE],
                              [info EXCEPT !.needs_response = TRUE, !.message = value], over, u)
               [] OTHER -> Parsed(info, <<0 - 1>>, overread, FALSE)

\* argproc.c:27-108
process_args(argv, u) == Arguments(argv, 1, NoDid, NoInfo, FALSE, u)

\* the switches and values the command lines are made of: "-v", "-p", "-c",
\* "-q", "-disp" and the unknown "-x"; "1" and "x"
Switches ==
    {<<45, 118>>, <<45, 112>>, <<45, 99>>, <<45, 113>>, <<45, 100, 105, 115, 112>>, <<45, 120>>}

Values == {<<49>>, <<120>>}

Pairs == {<<s, v>> : s \in Switches, v \in Values}

RECURSIVE Lines(_)
Lines(n) ==
    IF n = 0 THEN {<<>>}
    ELSE LET shorter == Lines(n - 1)
         IN  shorter \cup {l \o p : l \in shorter, p \in Pairs}

\* up to MaxPairs pairs, then possibly a switch with no value after it
Argvs ==
    {<<Prog>> \o l \o t : l \in Lines(MaxPairs), t \in {<<>>} \cup {<<s>> : s \in Switches}}

ArgEnv ==
    [argvs    |-> Argvs,
     inits    |-> {0, 0 - 1},
     ub       |-> {"crash", "false", "true"},
     commands |-> {Text(1)},
     sizes    |-> {BuffSize},
     buses    |-> {Bus(1, <<Instrument>>), Bus(0, <<>>)},
     codes    |-> {0},
     outcomes |-> {[status |-> 0, moved |-> "full"]}]

\* main and what it holds: its position, argv, what process_args left in
\* args and returned, and the code main or do_connect returned
MainFlow(at, argv, p, result) ==
    [at |-> at, argv |-> argv, code |-> p.code, overread |-> p.overread,
     vendor_id |-> p.info.vendor_id, product_id |-> p.info.product_id,
     do_connect |-> p.info.do_connect, message |-> p.info.message,
     needs_response |-> p.info.needs_response, result |-> result]

\* usb.c and the host are not touched
CoreUnchanged ==
    UNCHANGED <<messageIndex, callbackReturned, callbackError, usb, lib, session, pc,
                call, ret, message, args, xfer, pending, submitted, completions,
                command, lastSeq, run, bus>>

\* main.c:109-116: the program is started, libusb_init succeeds or main returns -1
main(e) ==
    /\ flow = <<>>
    /\ \E argv \in e.argvs, init_error \in e.inits :
         flow' = IF init_error # 0
                 THEN MainFlow("exited", argv, Parsed(NoInfo, <<>>, FALSE, FALSE), <<0 - 1>>)
                 ELSE MainFlow("main", argv, Parsed(NoInfo, <<>>, FALSE, FALSE), <<>>)
    /\ CoreUnchanged

\* main.c:118-119
main_process_args(e) ==
    /\ flow # <<>> /\ flow.at = "main"
    /\ \E u \in e.ub :
         LET p == process_args(flow.argv, u)
         IN  flow' = MainFlow(IF p.crashed THEN "crashed" ELSE "parsed", flow.argv, p, <<>>)
    /\ CoreUnchanged

\* main.c:121 (return -1), and main.c:132 (return 0) when do_connect is false
\* or has returned
main_returns ==
    /\ flow # <<>>
    /\ \/ /\ flow.at = "parsed" /\ flow.code = <<0 - 1>>
          /\ flow' = [flow EXCEPT !.at = "exited", !.result = <<0 - 1>>]
       \/ /\ flow.at = "parsed" /\ flow.code # <<0 - 1>> /\ ~flow.do_connect
          /\ flow' = [flow EXCEPT !.at = "exited", !.result = <<0>>]
       \/ /\ flow.at = "returned"
          /\ flow' = [flow EXCEPT !.at = "exited", !.result = <<0>>]
    /\ CoreUnchanged

\* main.c:123-131: displayDevices changes nothing of usb.c; do_connect is entered
main_do_connect ==
    /\ flow # <<>> /\ flow.at = "parsed" /\ flow.code # <<0 - 1>> /\ flow.do_connect
    /\ flow' = [flow EXCEPT !.at = "running"]
    /\ CoreUnchanged

\* the bus, asked for the ids of args (main.c:41)
WithIds(e) ==
    [e EXCEPT !.buses = {[b EXCEPT !.vendor_id = flow.vendor_id,
                                   !.product_id = flow.product_id] : b \in e.buses}]

\* main.c:41
main_usb_connect(e) == ConnectIsNext /\ usb_connect(WithIds(e))

\* main.c:53.  With a null message strlen (usb.c:99) reads address 0: the
\* process is killed, or the read yields some string
main_usb_write(e) ==
    /\ WriteIsNext
    /\ IF flow.message = NULL
       THEN \/ flow' = [flow EXCEPT !.at = "crashed"] /\ CoreUnchanged
            \/ usb_write(e)
       ELSE usb_write([e EXCEPT !.commands = {flow.message}])

Arg(e) ==
    \/ main(e)
    \/ main_process_args(e)
    \/ main_returns
    \/ main_do_connect
    \/ main_usb_connect(e)
    \/ main_usb_write(e)
    \/ do_connect_usb_read(e)
    \/ do_connect_usb_close
    \/ do_connect_returns
    \/ callback_runs(e)
    \/ send_transfer(e)
    \/ send_transfer_done

ArgNext == Arg(ArgEnv)

ArgSpec == Init /\ [][ArgNext]_vars

----------------------------------------------------------------------------
(* The claims *)

\* a frame is in the hands of the call in progress
FrameBuilt == message # <<>>

\* the successor of a sequence value in the cyclic order 1..255
CycSucc(s) == (s % 255) + 1

\* the bitwise NOT of a byte, bit by bit
BitNot8(s) ==
    LET bit(k) == (s \div (2 ^ k)) % 2
        flip(k) == (1 - bit(k)) * (2 ^ k)
    IN  flip(0) + flip(1) + flip(2) + flip(3) + flip(4) + flip(5) + flip(6) + flip(7)

\* n rounded up to a multiple of 4
RoundUp4(n) == 4 * ((n + 3) \div 4)

\* the header of a frame as the far end reads it
Decode(header) ==
    [kind     |-> header[1],
     sequence |-> header[2],
     length   |-> header[5] + 256 * header[6] + 65536 * header[7] + 16777216 * header[8]]

\* the own transfer of the call completed in full and without error
CompletedFine(c) == c.status = 0 /\ c.actual_length = c.length

\* C1: after a successful usb_connect, whatever usb_write and usb_read calls
\* follow and however they end, the sequence byte (header offset 1) of every
\* frame built for the OUT endpoint is in 1..255, never 0, also after 255.
C1_SequenceByteNeverZero == FrameBuilt => message[2] \in 1..255

\* C1 witness: the frame built right after the frame numbered 255 carries 1.
C1_Witness == pc = "send" /\ call = "write" /\ lastSeq = 255 /\ message[2] = 1

\* C2: in a run of usb_write calls only since usb_connect, whose transfers were
\* all submitted and completed, the k-th frame carries ((k-1) mod 255) + 1.
C2_WriteRunSequence ==
    (call = "write" /\ pc = "wait" /\ run # NoRun) => message[2] = ((run - 1) % 255) + 1

\* C2 witness: the last write of the longest such run (the 300th, with sequence
\* byte 45) is on the wire, after the counter wrapped from 255 to 1.
C2_Witness ==
    /\ call = "write" /\ pc = "wait" /\ run = MaxWrites /\ run >= 300
    /\ message[2] = ((MaxWrites - 1) % 255) + 1

\* C3: the counter advances by one step per frame: when a call has completed
\* and put a frame on OUT, the next frame built (by usb_write or usb_read)
\* carries the cyclic successor of that frame's sequence byte.
C3_ConsecutiveFrames ==
    [][(~FrameBuilt /\ FrameBuilt' /\ lastSeq # 0) => message'[2] = CycSucc(lastSeq)]_vars

\* C4: in every frame built by usb_write or usb_read, header byte 2 is the
\* bitwise NOT of the sequence byte s at header byte 1, that is 255 - s.
C4_Complement ==
    FrameBuilt => (message[3] = BitNot8(message[2]) /\ message[3] = 255 - message[2])

\* C4 witness: a request of usb_read with sequence byte 170 and complement 85.
C4_Witness == FrameBuilt /\ message[1] = readFrom /\ message[2] = 170 /\ message[3] = 85

\* C5: the Send frame of a command of length L has size 12 + (L + 1) rounded up
\* to a multiple of 4 (so a multiple of 4, at least 12); every byte after the
\* terminator and the reserved header bytes 3 and 9..11 are zero.
C5_SendFrameSize ==
    (call = "write" /\ FrameBuilt) =>
        LET L == Len(command)
            size == Len(message)
        IN  /\ size = 12 + RoundUp4(L + 1)
            /\ size % 4 = 0
            /\ size >= 12
            /\ \A off \in (12 + L + 1)..(size - 1) : message[off + 1] = 0
            /\ \A off \in {3, 9, 10, 11} : message[off + 1] = 0

\* C5 witness: a command of 4 characters in a frame of 20 bytes, 3 of them padding.
C5_Witness == call = "write" /\ FrameBuilt /\ Len(command) = 4 /\ Len(message) = 20

\* C6: decoding the first 12 bytes of the Send frame built for a command of
\* length L with sequence value seq gives kind 1, sequence seq and the little
\* endian length L + 1.
C6_HeaderRoundTrip ==
    (call = "write" /\ FrameBuilt) =>
        Decode(SubSeq(message, 1, 12)) =
            [kind |-> 1, sequence |-> messageIndex, length |-> Len(command) + 1]

\* C6 witness: the long command (300 characters), whose length field takes two
\* bytes (301 = 45 + 256 * 1).
C6_Witness ==
    /\ call = "write" /\ FrameBuilt /\ Len(command) = LongLen
    /\ message[5] = (LongLen + 1) % 256 /\ message[6] = 1

\* C7: usb_write submits exactly one transfer, on the OUT endpoint, whose kind
\* byte is 1 and whose bytes from offset 12 are the command and one '\n'; when
\* that transfer completes with status 0 and in full, usb_write returns 0.
C7_WriteSuccess ==
    /\ (call = "write" /\ pc = "wait") =>
          /\ submitted = <<usb.out_endpoint>>
          /\ usb.out_endpoint < 128
          /\ message[1] = 1
          /\ SubSeq(message, 13, 13 + Len(command)) = Append(command, 10)
    /\ (call = "write" /\ pc = "idle"
          /\ \E k \in DOMAIN completions : CompletedFine(completions[k])) =>
          /\ ret = <<0>>
          /\ submitted = <<usb.out_endpoint>>
          /\ Len(completions) = 1

\* C8: in every frame built for the OUT endpoint, by usb_write and by usb_read,
\* the end-of-message flag at header offset 8 is 1.
C8_EndOfMessageFlag == FrameBuilt => message[9] = 1

\* C9: when usb_write or usb_read returns, the transfer the call allocated has
\* been released, on every exit path.
C9_TransferReleased == (pc = "idle" /\ call \in {"write", "read"}) => xfer = "freed"

\* C10: when the transfer of usb_write completes with a nonzero status or with
\* actual_length other than the length asked for, usb_write returns -1 and the
\* transfer has been released.
C10_WriteFailure ==
    (call = "write" /\ pc = "idle"
       /\ \E k \in DOMAIN completions : ~CompletedFine(completions[k])) =>
          (ret = <<0 - 1>> /\ xfer = "freed")

\* the k-th completion of the call is that of a transfer on the IN endpoint
OnIn(k) == completions[k].endpoint > 127

\* C11: an IN transfer counts as received only with status 0 and at least one
\* byte: a usb_read whose IN transfer completed with status 0 and no byte
\* returns -1.
C11_EmptyReceiveFails ==
    (call = "read" /\ pc = "idle"
       /\ \E k \in DOMAIN completions :
            OnIn(k) /\ completions[k].status = 0 /\ completions[k].actual_length = 0) =>
          ret = <<0 - 1>>

\* usb_connect has been called
Scanned == bus # <<>>

\* the endpoint is a bulk endpoint: bits 0..1 of bmAttributes are 10
IsBulk(ep) == ep.bmAttributes % 2 = 0 /\ (ep.bmAttributes \div 2) % 2 = 1

\* the direction of the endpoint, bit 7 of its address
IsIn(ep) == ep.bEndpointAddress >= 128

\* the addresses of the bulk endpoints of device d, by direction
BulkOut(d) == {d.endpoints[j].bEndpointAddress : j \in
                  {j \in DOMAIN d.endpoints : IsBulk(d.endpoints[j]) /\ ~IsIn(d.endpoints[j])}}

BulkIn(d) == {d.endpoints[j].bEndpointAddress : j \in
                 {j \in DOMAIN d.endpoints : IsBulk(d.endpoints[j]) /\ IsIn(d.endpoints[j])}}

NotBulk(d) == {d.endpoints[j].bEndpointAddress : j \in
                  {j \in DOMAIN d.endpoints : ~IsBulk(d.endpoints[j])}}

\* device i of the bus could be read and has the ids asked for
Matches(i) ==
    /\ bus.devices[i].desc = 0
    /\ bus.devices[i].idVendor = bus.vendor_id
    /\ bus.devices[i].idProduct = bus.product_id

\* device i is the first such device in enumeration order
FirstMatch(i) == i \in DOMAIN bus.devices /\ Matches(i) /\ \A j \in 1..(i - 1) : ~Matches(j)

\* every call usb_connect makes on device d succeeds and d has both endpoints
Healthy(d) ==
    /\ d.open = 0 /\ d.configure \in {0, 0 - 12} /\ d.config_desc = 0
    /\ d.claim = 0 /\ d.alt = 0
    /\ BulkOut(d) # {} /\ BulkIn(d) # {}

\* C12: when usb_connect has returned 0 the session is fully connected: the
\* handle is open, interface 0 claimed, out_endpoint the address of a bulk OUT
\* endpoint and in_endpoint that of a bulk IN endpoint of the device opened; no
\* endpoint that is not bulk is recorded.
C12_FullyConnected ==
    (session = "connected") =>
        /\ lib.handle = "open" /\ usb.handle = "handle" /\ lib.claimed
        /\ lib.opened \in DOMAIN bus.devices
        /\ usb.out_endpoint \in BulkOut(bus.devices[lib.opened])
        /\ usb.in_endpoint \in BulkIn(bus.devices[lib.opened])
        /\ {usb.out_endpoint, usb.in_endpoint} \cap NotBulk(bus.devices[lib.opened]) = {}

\* C12 witness: connected to the instrument whose interrupt and isochronous
\* endpoints come after its bulk endpoints 2 and 130.
C12_Witness ==
    /\ call = "connect" /\ ret = <<0>> /\ session = "connected"
    /\ bus.devices[lib.opened] = Instrument2
    /\ usb.out_endpoint = 2 /\ usb.in_endpoint = 130

\* C13: when usb_connect fails after it opened the handle, it returns -1 with
\* the handle closed (as many closes as opens), the config descriptor freed if
\* it was obtained, and the device list freed.
C13_FailureCleansUp ==
    (session = "failed" /\ lib.opens > 0) =>
        /\ ret = <<0 - 1>>
        /\ lib.handle = "closed" /\ lib.closes = lib.opens
        /\ lib.config \in {"none", "freed"}
        /\ lib.list = "freed"

\* C13 witness: a failure after the interface was claimed (alt setting or a
\* missing endpoint), with the descriptor freed and the handle closed.
C13_Witness ==
    /\ session = "failed" /\ lib.opens = 1 /\ lib.closes = 1
    /\ lib.claimed /\ lib.config = "freed"

\* C14: usb_connect opens only the first device in enumeration order that has
\* both ids asked for; no device before it is opened, and on success the
\* endpoints of the session are those of that device.
C14_FirstMatchOpened ==
    (Scanned /\ lib.openCalls > 0) =>
        /\ lib.openCalls = 1
        /\ \E i \in DOMAIN bus.devices :
              /\ FirstMatch(i)
              /\ lib.opens > 0 => lib.opened = i
              /\ session = "connected" =>
                    /\ usb.out_endpoint \in BulkOut(bus.devices[i])
                    /\ usb.in_endpoint \in BulkIn(bus.devices[i])

\* C14 witness: of two devices only the second matches, and the session has
\* the endpoints of the second.
C14_Witness ==
    /\ session = "connected" /\ Len(bus.devices) = 2
    /\ ~Matches(1) /\ bus.devices[1].desc = 0 /\ Matches(2)
    /\ lib.opened = 2 /\ lib.opens = 1
    /\ usb.out_endpoint = 2 /\ usb.in_endpoint = 130

\* C15: a device whose descriptor cannot be read is skipped: when the first
\* device that matches is healthy, usb_connect succeeds on it, whatever
\* unreadable devices come before it.
C15_UnreadableSkipped ==
    (Scanned /\ call = "connect") =>
        \A i \in DOMAIN bus.devices :
            (FirstMatch(i) /\ Healthy(bus.devices[i])) =>
                (ret = <<0>> /\ session = "connected" /\ lib.opened = i)

\* C15 witness: the first device could not be read and usb_connect succeeded
\* on the second.
C15_Witness ==
    /\ call = "connect" /\ ret = <<0>> /\ Len(bus.devices) = 2
    /\ bus.devices[1].desc # 0 /\ lib.opened = 2

\* C16: when the open of the first matching device fails, usb_connect returns
\* -1 at once: one call of libusb_open, no later device tried, the list freed.
C16_OpenFailureIsFinal ==
    (Scanned /\ \E i \in DOMAIN bus.devices : FirstMatch(i) /\ bus.devices[i].open # 0) =>
        /\ session = "failed" /\ ret = <<0 - 1>>
        /\ lib.openCalls = 1 /\ lib.opens = 0 /\ lib.handle = "none"
        /\ lib.list = "freed" /\ lib.listFrees = 1

\* C16 witness: the open of the first of two matching devices failed and the
\* second, healthy one was left alone.
C16_Witness ==
    /\ session = "failed" /\ Len(bus.devices) = 2
    /\ FirstMatch(1) /\ bus.devices[1].open # 0
    /\ Matches(2) /\ Healthy(bus.devices[2])
    /\ lib.openCalls = 1

\* C17: usb_close on a connected session releases the claimed interface 0 and
\* closes the handle: once it has returned, libusb_release_interface has been
\* called for the interface usb_connect claimed and the handle is closed.
C17_CloseReleasesInterface ==
    (session = "closed") =>
        /\ lib.handle = "closed"
        /\ lib.claimed => lib.released

\* the request of the usb_read in progress or just returned was refused by
\* libusb_submit_transfer (usb.c:281)
RequestRefused == submitted = <<>> \/ submitted[1] # usb.out_endpoint

\* the request completed with an error status or short
RequestFailed ==
    \E k \in DOMAIN completions : ~OnIn(k) /\ ~CompletedFine(completions[k])

\* C18: a failure of the request phase of usb_read is reported: when the
\* submission of the request fails, or the request completes with a nonzero
\* status or short, usb_read returns -1 however the IN transfer completes.
C18_RequestFailureReported ==
    (call = "read" /\ pc = "idle" /\ (RequestRefused \/ RequestFailed)) => ret = <<0 - 1>>

\* C19: at most one transfer is in flight at any time, and usb_read does not
\* fill in its transfer for the IN endpoint while the transfer is still in
\* flight as the request on OUT.
C19_OneTransferInFlight ==
    /\ Len(pending) <= 1
    /\ \A k \in DOMAIN pending :
          pending[k].own => pending[k].endpoint = pending[k].subep

\* the step is the call of usb_write, of usb_read, of usb_close
WriteIssued == pc = "idle" /\ pc' = "send"

ReadIssued == pc = "idle" /\ pc' = "request"

CloseIssued == lib'.closes # lib.closes /\ call' = "close"

\* C20: in do_connect the session goes Unconnected -> Connected -> Closed:
\* usb_write is called only after usb_connect returned 0, usb_read only after
\* usb_write returned 0 and only when a response is needed, usb_close at most
\* once, and nothing is called after usb_close.
C20_SessionOrder ==
    [][/\ WriteIssued => (session = "connected" /\ call = "connect" /\ ret = <<0>>)
       /\ ReadIssued => (session = "connected" /\ call = "write" /\ ret = <<0>>
                            /\ flow.needs_response)
       /\ CloseIssued => (session = "connected" /\ lib.closes = 0)
       /\ session = "closed" => (session' = "closed" /\ pc' = "idle" /\ call' = "close")
       /\ session' # session =>
             \/ session = "unconnected" /\ session' \in {"connected", "failed"}
             \/ session = "connected" /\ session' = "closed"]_vars

\* C20 witness: do_connect has returned after connect, write, read and close.
C20_Witness ==
    /\ flow # <<>> /\ flow.at = "returned" /\ flow.needs_response
    /\ session = "closed" /\ call = "close" /\ lib.closes = 1

\* C21: in do_connect every session that usb_connect opened has been closed
\* with usb_close when do_connect returns, also when usb_write or usb_read
\* failed.
C21_ClosedBeforeReturn ==
    (flow # <<>> /\ flow.at = "returned") => session # "connected"

\* a call of usb_write or usb_read is in progress
InCall == pc # "idle"

\* the step leaves the wait loop of send_transfer (usb.c:66-68)
LoopExit == pc = "wait" /\ pc' = "idle"

\* the callback of the transfer the call submitted last has run
OwnCallbackRan == ~OwnInFlight

C22_Returns == InCall ~> ~InCall

C22_NoEarlyExit == [][LoopExit => OwnCallbackRan]_vars

C22_ExitWhenRun == [](pc = "wait" /\ OwnCallbackRan => callbackReturned # 0)

\* C22: when the host delivers the callback of every transfer submitted, every
\* usb_write and usb_read returns; the wait loop of send_transfer is left as
\* soon as the callback of the transfer has run, and never before.
C22_CallsReturn == C22_Returns /\ C22_NoEarlyExit /\ C22_ExitWhenRun

\* the length field of the header (offsets 4..7, little endian) is at most n;
\* a field with bit 31 set is above every n that is asked about
LengthFieldAtMost(header, n) ==
    /\ header[8] < 128
    /\ header[5] + 256 * header[6] + 65536 * header[7] + 16777216 * header[8] <= n

\* C23: the length field of the request frame of usb_read never exceeds the
\* size of the buffer passed, for sizes below 12 too (no wrap of size - 12).
C23_RequestWithinBuffer ==
    (call = "read" /\ FrameBuilt) => LengthFieldAtMost(message, args.size)

\* the device list has been freed exactly once, and it was a list that
\* libusb_get_device_list had produced
FreedOnce == lib.listFrees = 1 /\ lib.list = "freed" /\ ~lib.uninitFree

\* C24: on every return path of usb_connect the device list is freed exactly
\* once; when libusb_get_device_list failed (negative count) usb_connect
\* returns -1 and frees nothing.
C24_ListFreedOnce ==
    (Scanned /\ call = "connect") =>
        IF bus.count >= 0
        THEN FreedOnce
        ELSE ret = <<0 - 1>> /\ lib.listFrees = 0 /\ ~lib.uninitFree

\* a switch of S stands at an odd place of the command line and a value that
\* is Good follows it
Supplied(argv, S, Good(_)) ==
    \E i \in 1..(Len(argv) - 2) : i % 2 = 1 /\ argv[i + 1] \in S /\ Good(argv[i + 2])

\* a switch of S stands at an odd place of the command line
Present(argv, S) == \E i \in 1..(Len(argv) - 1) : i % 2 = 1 /\ argv[i + 1] \in S

IsNumber(str) == \A k \in 1..Len(str) : IsDigit(str[k])

IsString(str) == str # NULL

SuppliedAll(argv) ==
    /\ Supplied(argv, SwitchV, IsNumber)
    /\ Supplied(argv, SwitchP, IsNumber)
    /\ Supplied(argv, SwitchC \cup SwitchQ, IsString)

SuppliedDisplayOnly(argv) ==
    /\ Supplied(argv, SwitchDisp, IsNumber)
    /\ ~Present(argv, SwitchV \cup SwitchP \cup SwitchC \cup SwitchQ)

\* C25: process_args returns ARGPROC_SUCCESS only if a numeric vendor id, a
\* numeric product id and a command or query were supplied, or only a display
\* level was (do_connect is then false); it never reads argv[i+1] with
\* i+1 >= argc; usb_connect is called only after process_args succeeded with
\* do_connect true.
C25_ValidatedArgs ==
    flow # <<>> =>
        /\ flow.code = <<0>> =>
               \/ SuppliedAll(flow.argv)
               \/ SuppliedDisplayOnly(flow.argv) /\ ~flow.do_connect
        /\ ~flow.overread
        /\ call # "none" => flow.code = <<0>> /\ flow.do_connect

====
